---- MODULE Spec2Model ----
(***************************************************************************)
(* One run of main.py: resolve the trips of the configured line, filter    *)
(* stops.txt / stop_times.txt, fetch the GTFS-RT feed, join it with the    *)
(* static schedule and send the delay alert to the Discord webhook.        *)
(*                                                                         *)
(* Strings that the code splits (stop ids, trip ids) are sequences of      *)
(* one-character strings.  A data frame is a sequence of records, in row   *)
(* order.  arrival_time "HH:MM:SS" is the number of seconds it names; the  *)
(* departure_time / departure_delay columns are left out: nothing the run  *)
(* reports reads them.                                                     *)
(***************************************************************************)
EXTENDS Integers, Sequences, FiniteSets, TLC

VARIABLES
  LINE_STOPS,      \* config["LINE_STOPS"], the names of the monitored stops
  pc,              \* the call __main__ makes next, or "done"
  outcome,         \* how the run ended, "running" before
  line_route_ids,  \* get_line_trip_ids: the route ids of LINE_NAME
  line_trip_ids,   \* what get_line_trip_ids returned
  stops_df,        \* what filter_stops_and_times returned
  stop_times_df,
  fetch_error,     \* the exception raised while fetching or decoding, "none" otherwise
  feed,            \* the decoded FeedMessage: its entities
  realtime_df,     \* the locals of fetch_realtime_data when it returned
  merged_df,
  delayed_df,
  message,
  notifications,   \* the calls of send_discord_notification, in order
  norm             \* normalize_stop_id applied on its own

vars == <<LINE_STOPS, pc, outcome, line_route_ids, line_trip_ids, stops_df, stop_times_df,
          fetch_error, feed, realtime_df, merged_df, delayed_df, message, notifications,
          norm>>

\* ------------------------------------------------------------------ bounds
\* rows of stop_times.txt in a full run
MaxSchedRows == 2
\* rows of stop_times.txt when only the static filtering is explored
MaxStopTimes == 3
\* entities plus stop_time_updates of one feed message
MaxFeedSize == 3
\* characters of a raw stop id given to normalize_stop_id on its own
MaxIdLen == 3

\* ----------------------------------------------------------- configuration
LINE_NAME == "L1"
DelayThreshold == 120
SecondsPerDay == 86400
NaT == -1
NaN == "NaN"

\* ------------------------------------------------------------ generic rows
Range(s) == {s[i] : i \in DOMAIN s}

RECURSIVE SeqsUpTo(_, _)
SeqsUpTo(S, n) ==
  IF n = 0 THEN {<<>>}
  ELSE LET shorter == SeqsUpTo(S, n - 1)
       IN shorter \cup {Append(q, x) : q \in {r \in shorter : Len(r) = n - 1}, x \in S}

RECURSIVE Concat(_)
Concat(ss) == IF ss = <<>> THEN <<>> ELSE Head(ss) \o Concat(Tail(ss))

\* ------------------------------------------------------- string operations
FirstColon(s) == CHOOSE i \in DOMAIN s : s[i] = ":" /\ \A j \in 1..(i - 1) : s[j] # ":"
LastColon(s) == CHOOSE i \in DOMAIN s : s[i] = ":" /\ \A j \in (i + 1)..Len(s) : s[j] # ":"

normalize_stop_id_last(stop_id) ==
  IF ":" \in Range(stop_id) THEN SubSeq(stop_id, LastColon(stop_id) + 1, Len(stop_id))
  ELSE stop_id

\* stop_id.split(":")[0] if ":" in stop_id else stop_id
normalize_stop_id(stop_id) ==
  IF ":" \in Range(stop_id) THEN SubSeq(stop_id, 1, FirstColon(stop_id) - 1)
  ELSE stop_id

\* trip_id.split(":")[-1]
strip_trip_prefix(trip_id) ==
  IF ":" \in Range(trip_id) THEN SubSeq(trip_id, LastColon(trip_id) + 1, Len(trip_id))
  ELSE trip_id

Ord(c) == CASE c = "1" -> 49 [] c = "2" -> 50 [] c = ":" -> 58
            [] c = "a" -> 97 [] c = "b" -> 98 [] c = "c" -> 99 [] c = "x" -> 120

\* Python's str <
RECURSIVE StrLess(_, _)
StrLess(s, t) ==
  IF t = <<>> THEN FALSE
  ELSE IF s = <<>> THEN TRUE
  ELSE IF s[1] # t[1] THEN Ord(s[1]) < Ord(t[1])
  ELSE StrLess(Tail(s), Tail(t))

\* ------------------------------------------------------------ static input
RouteRows == {[route_id |-> "R1", route_short_name |-> "L1"],
              [route_id |-> "R2", route_short_name |-> "L2"]}
RoutesTables == SUBSET RouteRows

TripsTables == {
  {[trip_id |-> <<"1">>, route_id |-> "R1"], [trip_id |-> <<"2">>, route_id |-> "R2"]},
  {[trip_id |-> <<"1">>, route_id |-> "R1"]} }

StopsTables == {
  << [stop_id |-> <<"a", ":", "1">>, stop_name |-> "A"],
     [stop_id |-> <<"b">>, stop_name |-> "B"],
     [stop_id |-> <<"c">>, stop_name |-> "C"] >>,
  << [stop_id |-> <<"a", ":", "1">>, stop_name |-> "A"],
     [stop_id |-> <<"a", ":", "2">>, stop_name |-> "A"],
     [stop_id |-> <<"b">>, stop_name |-> "B"] >> }

StaticTripIds == {<<"1">>, <<"2">>}
StaticStopIds == {<<"a">>, <<"b", ":", "1">>, <<"c">>}
\* 08:00:00, 08:05:00 and 24:10:00 in a full run; 08:00:00, 08:05:00 and 08:10:00
\* when only the static filtering is explored
ArrivalTimes == {28800, 29100, 87000}
ScheduleTimes == {28800, 29100, 29400}

StopTimesTables(maxRows, times) ==
  SeqsUpTo([trip_id : StaticTripIds, stop_id : StaticStopIds, arrival_time : times], maxRows)

StopNameSets == {{"A", "B"}, {"A", "B", "C"}}

\* ---------------------------------------------------------- get_line_trip_ids
\* routes[routes["route_short_name"] == LINE_NAME]["route_id"]
LineRouteIds(routes) == {r.route_id : r \in {x \in routes : x.route_short_name = LINE_NAME}}

\* set(trips[trips["route_id"].isin(line_route_ids)]["trip_id"])
LineTripIds(trips, route_ids) == {t.trip_id : t \in {x \in trips : x.route_id \in route_ids}}

\* ------------------------------------------------------ filter_stops_and_times
NormalizeColumn(df) == [i \in DOMAIN df |-> [df[i] EXCEPT !.stop_id = normalize_stop_id(@)]]

\* stops_df after lines 89-91
FilterStops(stops) ==
  LET Monitored(r) == r.stop_name \in LINE_STOPS
  IN SelectSeq(NormalizeColumn(stops), Monitored)

\* stop_times_df after lines 93-101
FilterStopTimes(stop_times, trip_ids, stops) ==
  LET ids == {stops[i].stop_id : i \in DOMAIN stops}
      Keep(r) == r.trip_id \in trip_ids /\ r.stop_id \in ids
  IN SelectSeq(NormalizeColumn(stop_times), Keep)

TripRows(df, trip_id) ==
  LET OfTrip(r) == r.trip_id = trip_id
  IN SelectSeq(df, OfTrip)

\* groupby("trip_id").agg(first, last): the first and the last row of the group
\* in the order of the rows of the frame
StartStop(df, trip_id) == TripRows(df, trip_id)[1].stop_id
EndStop(df, trip_id) == LET g == TripRows(df, trip_id) IN g[Len(g)].stop_id

InvalidTrips(df) ==
  {t \in {df[i].trip_id : i \in DOMAIN df} : StartStop(df, t) = EndStop(df, t)}

DropInvalidTrips(df) ==
  LET invalid == InvalidTrips(df)
      Valid(r) == r.trip_id \notin invalid
  IN SelectSeq(df, Valid)

\* ----------------------------------------------------------- realtime input
RtTripIds == {<<"x", ":", "1">>, <<"2">>}
RtStopIds == {<<"a", ":", "2">>, <<"b">>, <<"c">>}
ArrivalDelays == {90, 150}

\* one stop_time_update: HasField("arrival") and arrival.delay
StopTimeUpdates ==
  [stop_id : RtStopIds, has_arrival : {TRUE}, delay : ArrivalDelays]
    \cup [stop_id : RtStopIds, has_arrival : {FALSE}, delay : {0}]

RECURSIVE UpdateSeqs(_)
UpdateSeqs(k) ==
  IF k = 0 THEN {<<>>}
  ELSE {Append(q, u) : q \in UpdateSeqs(k - 1), u \in StopTimeUpdates}

\* feed messages of exactly n entities and stop_time_updates together
RECURSIVE FeedsOfSize(_)
FeedsOfSize(n) ==
  IF n = 0 THEN {<<>>}
  ELSE UNION {
         {<<[trip_id |-> t, stop_time_update |-> us]>> \o rest :
            t \in RtTripIds, us \in UpdateSeqs(k), rest \in FeedsOfSize(n - 1 - k)}
         : k \in 0..(n - 1)}

Feeds == UNION {FeedsOfSize(n) : n \in 0..MaxFeedSize}

\* --------------------------------------------------------- fetch_realtime_data
\* lines 125-141: one row per stop_time_update of every entity
EntityRows(entity) ==
  [i \in DOMAIN entity.stop_time_update |->
     [trip_id |-> strip_trip_prefix(entity.trip_id),
      stop_id |-> normalize_stop_id(entity.stop_time_update[i].stop_id),
      arrival_delay |-> IF entity.stop_time_update[i].has_arrival
                        THEN entity.stop_time_update[i].delay ELSE 0]]

TripUpdates(entities) == Concat([i \in DOMAIN entities |-> EntityRows(entities[i])])

\* realtime_df.merge(stops_df, on="stop_id", how="left")
MergeStops(left, stops) ==
  LET RowsOf(u) ==
        LET Match(s) == s.stop_id = u.stop_id
            m == SelectSeq(stops, Match)
        IN IF m = <<>>
           THEN <<[trip_id |-> u.trip_id, stop_id |-> u.stop_id,
                   arrival_delay |-> u.arrival_delay, stop_name |-> NaN]>>
           ELSE [j \in DOMAIN m |->
                   [trip_id |-> u.trip_id, stop_id |-> u.stop_id,
                    arrival_delay |-> u.arrival_delay, stop_name |-> m[j].stop_name]]
  IN Concat([i \in DOMAIN left |-> RowsOf(left[i])])

\* merged_df.merge(stop_times_df, on=["trip_id", "stop_id"], how="left")
MergeStopTimes(left, stop_times) ==
  LET RowsOf(u) ==
        LET Match(s) == s.trip_id = u.trip_id /\ s.stop_id = u.stop_id
            m == SelectSeq(stop_times, Match)
        IN IF m = <<>>
           THEN <<[trip_id |-> u.trip_id, stop_id |-> u.stop_id,
                   arrival_delay |-> u.arrival_delay, stop_name |-> u.stop_name,
                   arrival_time |-> NaT]>>
           ELSE [j \in DOMAIN m |->
                   [trip_id |-> u.trip_id, stop_id |-> u.stop_id,
                    arrival_delay |-> u.arrival_delay, stop_name |-> u.stop_name,
                    arrival_time |-> m[j].arrival_time]]
  IN Concat([i \in DOMAIN left |-> RowsOf(left[i])])

\* pd.to_datetime(today + " " + arrival_time, format="%Y-%m-%d %H:%M:%S",
\* errors="coerce"): a missing value or an hour past 23 gives NaT
ToDatetime(arrival_time) ==
  IF arrival_time = NaT \/ arrival_time >= SecondsPerDay THEN NaT ELSE arrival_time

RealArrivalTimeNoDelay(arrival_time, arrival_delay) == ToDatetime(arrival_time)

\* arrival_time + pd.to_timedelta(arrival_delay, unit="s")
RealArrivalTime(arrival_time, arrival_delay) ==
  IF ToDatetime(arrival_time) = NaT THEN NaT ELSE ToDatetime(arrival_time) + arrival_delay

\* lines 151-169: merged_df restricted to the monitored stops
MergedFrame(realtime, stops, stop_times) ==
  LET m == MergeStopTimes(MergeStops(realtime, stops), stop_times)
      timed == [i \in DOMAIN m |->
                  [trip_id |-> m[i].trip_id, stop_id |-> m[i].stop_id,
                   arrival_delay |-> m[i].arrival_delay, stop_name |-> m[i].stop_name,
                   arrival_time |-> ToDatetime(m[i].arrival_time),
                   real_arrival_time |-> RealArrivalTime(m[i].arrival_time, m[i].arrival_delay)]]
      Monitored(r) == r.stop_name \in LINE_STOPS
  IN SelectSeq(timed, Monitored)

DelayedTripsLow(df) == {df[i].trip_id : i \in {j \in DOMAIN df : df[j].arrival_delay >= 60}}

\* merged_df[merged_df["arrival_delay"] >= 120]["trip_id"].unique()
DelayedTrips(df) ==
  {df[i].trip_id : i \in {j \in DOMAIN df : df[j].arrival_delay >= DelayThreshold}}

\* the order of sort_values(by=["trip_id", "real_arrival_time"]): NaT sorts last
RowLess(r, s) ==
  \/ StrLess(r.trip_id, s.trip_id)
  \/ /\ r.trip_id = s.trip_id
     /\ r.real_arrival_time # NaT
     /\ s.real_arrival_time = NaT \/ r.real_arrival_time < s.real_arrival_time

\* a stable sort: a row goes behind every row that is not greater than it
RECURSIVE InsertRow(_, _)
InsertRow(sorted, r) ==
  IF sorted = <<>> THEN <<r>>
  ELSE IF RowLess(r, Head(sorted)) THEN <<r>> \o sorted
  ELSE <<Head(sorted)>> \o InsertRow(Tail(sorted), r)

RECURSIVE SortValues(_)
SortValues(df) ==
  IF df = <<>> THEN <<>>
  ELSE InsertRow(SortValues(SubSeq(df, 1, Len(df) - 1)), df[Len(df)])

DropDuplicatesKeepLast(df) ==
  LET idx == {i \in DOMAIN df : \A j \in (i + 1)..Len(df) :
                 ~(df[j].trip_id = df[i].trip_id /\ df[j].stop_id = df[i].stop_id)}
  IN [k \in 1..Cardinality(idx) |->
        df[CHOOSE i \in idx : Cardinality({j \in idx : j < i}) = k - 1]]

\* drop_duplicates(subset=["trip_id", "stop_id"], keep="first")
DropDuplicates(df) ==
  LET idx == {i \in DOMAIN df : \A j \in 1..(i - 1) :
                 ~(df[j].trip_id = df[i].trip_id /\ df[j].stop_id = df[i].stop_id)}
  IN [k \in 1..Cardinality(idx) |->
        df[CHOOSE i \in idx : Cardinality({j \in idx : j < i}) = k - 1]]

\* lines 178-181
DelayedFrame(merged) ==
  LET trips == DelayedTrips(merged)
      Delayed(r) == r.trip_id \in trips
  IN DropDuplicates(SortValues(SelectSeq(merged, Delayed)))

\* strftime('%H:%M'), or "N/A" for NaT
Strftime(t) == IF t = NaT THEN <<"N/A">> ELSE <<(t \div 3600) % 24, (t \div 60) % 60>>

\* the keys of delayed_df.groupby("trip_id"), ascending
RECURSIVE GroupKeys(_)
GroupKeys(trips) ==
  IF trips = {} THEN <<>>
  ELSE LET least == CHOOSE t \in trips : \A u \in trips \ {t} : StrLess(t, u)
       IN <<least>> \o GroupKeys(trips \ {least})

\* lines 185-192: one "From start to end" block per trip_id.  trip_id is the
\* loop variable: the text of the message does not hold it.
AlertGroup(df, trip_id) ==
  LET group == TripRows(df, trip_id)
  IN [trip_id |-> trip_id,
      start |-> group[1].stop_name,
      end |-> group[Len(group)].stop_name,
      lines |-> [i \in DOMAIN group |->
                   [stop_name |-> group[i].stop_name,
                    arrival |-> Strftime(group[i].real_arrival_time),
                    delay_min |-> group[i].arrival_delay \div 60]]]

AlertMessage(df) ==
  LET keys == GroupKeys({df[i].trip_id : i \in DOMAIN df})
  IN [k \in DOMAIN keys |-> AlertGroup(df, keys[k])]

\* what the run holds when fetch_realtime_data returns
Returned(out, merged, delayed, msg, sent) ==
  [outcome |-> out, merged |-> merged, delayed |-> delayed, message |-> msg, sent |-> sent]

ExceptionResultSilent(e) == Returned("error", <<>>, <<>>, <<>>, <<>>)

\* lines 197-199: the except clause reports the error to the webhook
ExceptionResult(e) ==
  Returned("error", <<>>, <<>>, <<>>, <<[kind |-> "error", content |-> e]>>)

ReconcileNoEmptyCheck(realtime, stops, stop_times) ==
  IF realtime = <<>> THEN ExceptionResult("KeyError")
  ELSE LET merged == MergedFrame(realtime, stops, stop_times)
       IN IF DelayedTrips(merged) = {}
          THEN Returned("no_delays", merged, <<>>, <<>>, <<>>)
          ELSE LET delayed == DelayedFrame(merged)
                   msg == AlertMessage(delayed)
               IN Returned("alert", merged, delayed, msg, <<[kind |-> "alert", content |-> msg]>>)

\* lines 141-195, from the decoded rows to the notification
Reconcile(realtime, stops, stop_times) ==
  IF realtime = <<>> THEN Returned("no_updates", <<>>, <<>>, <<>>, <<>>)
  ELSE LET merged == MergedFrame(realtime, stops, stop_times)
       IN IF DelayedTrips(merged) = {}
          THEN Returned("no_delays", merged, <<>>, <<>>, <<>>)
          ELSE LET delayed == DelayedFrame(merged)
                   msg == AlertMessage(delayed)
               IN Returned("alert", merged, delayed, msg, <<[kind |-> "alert", content |-> msg]>>)

\* send_discord_notification: the post may fail, the failure is only printed
send_discord_notification(sent, webhook_ok) ==
  [i \in DOMAIN sent |->
     [kind |-> sent[i].kind, content |-> sent[i].content, delivered |-> webhook_ok]]

\* ------------------------------------------------------------------ the run
Idle == [step |-> "idle"]

Init ==
  /\ LINE_STOPS = {"A", "B"}
  /\ pc = "main"
  /\ outcome = "running"
  /\ line_route_ids = {}
  /\ line_trip_ids = {}
  /\ stops_df = <<>>
  /\ stop_times_df = <<>>
  /\ fetch_error = "none"
  /\ feed = <<>>
  /\ realtime_df = <<>>
  /\ merged_df = <<>>
  /\ delayed_df = <<>>
  /\ message = <<>>
  /\ notifications = <<>>
  /\ norm = Idle

Finish(out) ==
  /\ pc' = "done"
  /\ outcome' = out

\* GTFS_STATIC_URL is not set
MainNoUrl ==
  /\ pc = "main"
  /\ Finish("no_static_url")
  /\ UNCHANGED <<LINE_STOPS, line_route_ids, line_trip_ids, stops_df, stop_times_df,
                 fetch_error, feed, realtime_df, merged_df, delayed_df, message,
                 notifications, norm>>

\* validate_gtfs_files is false after download_and_extract_gtfs
MainMissingFiles ==
  /\ pc = "main"
  /\ Finish("missing_files")
  /\ UNCHANGED <<LINE_STOPS, line_route_ids, line_trip_ids, stops_df, stop_times_df,
                 fetch_error, feed, realtime_df, merged_df, delayed_df, message,
                 notifications, norm>>

MainValidated ==
  /\ pc = "main"
  /\ pc' = "get_line_trip_ids"
  /\ UNCHANGED <<LINE_STOPS, outcome, line_route_ids, line_trip_ids, stops_df,
                 stop_times_df, fetch_error, feed, realtime_df, merged_df, delayed_df,
                 message, notifications, norm>>

get_line_trip_ids ==
  /\ pc = "get_line_trip_ids"
  /\ \E routes \in RoutesTables, trips \in TripsTables :
       /\ line_route_ids' = LineRouteIds(routes)
       /\ line_trip_ids' = LineTripIds(trips, LineRouteIds(routes))
  /\ pc' = "filter_stops_and_times"
  /\ UNCHANGED <<LINE_STOPS, outcome, stops_df, stop_times_df, fetch_error, feed,
                 realtime_df, merged_df, delayed_df, message, notifications, norm>>

filter_stops_and_times(maxRows, times) ==
  /\ pc = "filter_stops_and_times"
  /\ \E stops \in StopsTables, stop_times \in StopTimesTables(maxRows, times) :
       /\ stops_df' = FilterStops(stops)
       /\ stop_times_df' =
            DropInvalidTrips(FilterStopTimes(stop_times, line_trip_ids, FilterStops(stops)))
  /\ pc' = "fetch_realtime_data"
  /\ UNCHANGED <<LINE_STOPS, outcome, line_route_ids, line_trip_ids, fetch_error, feed,
                 realtime_df, merged_df, delayed_df, message, notifications, norm>>

Return(error, entities, realtime, r, webhook_ok) ==
  /\ fetch_error' = error
  /\ feed' = entities
  /\ realtime_df' = realtime
  /\ merged_df' = r.merged
  /\ delayed_df' = r.delayed
  /\ message' = r.message
  /\ notifications' = send_discord_notification(r.sent, webhook_ok)
  /\ Finish(r.outcome)
  /\ UNCHANGED <<LINE_STOPS, line_route_ids, line_trip_ids, stops_df, stop_times_df, norm>>

\* requests.get or raise_for_status raises
FetchHttpError ==
  /\ pc = "fetch_realtime_data"
  /\ \E webhook_ok \in BOOLEAN : Return("HTTPError", <<>>, <<>>, ExceptionResult("HTTPError"), webhook_ok)

\* feed.ParseFromString raises on a malformed payload
FetchDecodeError ==
  /\ pc = "fetch_realtime_data"
  /\ \E webhook_ok \in BOOLEAN : Return("DecodeError", <<>>, <<>>, ExceptionResult("DecodeError"), webhook_ok)

fetch_realtime_data ==
  /\ pc = "fetch_realtime_data"
  /\ \E entities \in Feeds, webhook_ok \in BOOLEAN :
       Return("none", entities, TripUpdates(entities),
              Reconcile(TripUpdates(entities), stops_df, stop_times_df), webhook_ok)

Next ==
  \/ MainNoUrl
  \/ MainMissingFiles
  \/ MainValidated
  \/ get_line_trip_ids
  \/ filter_stops_and_times(MaxSchedRows, ArrivalTimes)
  \/ FetchHttpError
  \/ FetchDecodeError
  \/ fetch_realtime_data

Spec == Init /\ [][Next]_vars

\* the static half of the run alone, over larger stop_times tables and both
\* sets of monitored stops
InitFilter ==
  /\ LINE_STOPS \in StopNameSets
  /\ pc = "main"
  /\ outcome = "running"
  /\ line_route_ids = {}
  /\ line_trip_ids = {}
  /\ stops_df = <<>>
  /\ stop_times_df = <<>>
  /\ fetch_error = "none"
  /\ feed = <<>>
  /\ realtime_df = <<>>
  /\ merged_df = <<>>
  /\ delayed_df = <<>>
  /\ message = <<>>
  /\ notifications = <<>>
  /\ norm = Idle

NextFilter ==
  \/ MainNoUrl
  \/ MainMissingFiles
  \/ MainValidated
  \/ get_line_trip_ids
  \/ filter_stops_and_times(MaxStopTimes, ScheduleTimes)

SpecFilter == InitFilter /\ [][NextFilter]_vars

\* ------------------------------------------------- normalize_stop_id, alone
IdChars == {"a", "1", ":"}
Platforms == {<<>>, <<"1">>, <<"2">>, <<"1", ":", "2">>}

\* the base code of a raw stop id: its characters before the first delimiter
BaseCode(s) ==
  LET n == CHOOSE k \in 0..Len(s) :
             /\ \A j \in 1..k : s[j] # ":"
             /\ k < Len(s) => s[k + 1] = ":"
  IN SubSeq(s, 1, n)

\* the raw ids that share the base code of s: the bare code, or the code with
\* a platform
SameBase(s) == {BaseCode(s)} \cup {BaseCode(s) \o <<":">> \o p : p \in Platforms}

InitNorm ==
  /\ LINE_STOPS = {"A", "B"}
  /\ pc = "normalize"
  /\ outcome = "running"
  /\ line_route_ids = {}
  /\ line_trip_ids = {}
  /\ stops_df = <<>>
  /\ stop_times_df = <<>>
  /\ fetch_error = "none"
  /\ feed = <<>>
  /\ realtime_df = <<>>
  /\ merged_df = <<>>
  /\ delayed_df = <<>>
  /\ message = <<>>
  /\ notifications = <<>>
  /\ \E s \in SeqsUpTo(IdChars, MaxIdLen) : \E o \in SameBase(s) :
       norm = [step |-> "raw", raw |-> s, other |-> o,
               out |-> <<>>, other_out |-> <<>>, again |-> <<>>]

Normalize ==
  /\ norm.step = "raw"
  /\ norm' = [norm EXCEPT !.step = "normalized",
                          !.out = normalize_stop_id(norm.raw),
                          !.other_out = normalize_stop_id(norm.other)]
  /\ UNCHANGED <<LINE_STOPS, pc, outcome, line_route_ids, line_trip_ids, stops_df,
                 stop_times_df, fetch_error, feed, realtime_df, merged_df, delayed_df,
                 message, notifications>>

Renormalize ==
  /\ norm.step = "normalized"
  /\ norm' = [norm EXCEPT !.step = "renormalized", !.again = normalize_stop_id(norm.out)]
  /\ UNCHANGED <<LINE_STOPS, pc, outcome, line_route_ids, line_trip_ids, stops_df,
                 stop_times_df, fetch_error, feed, realtime_df, merged_df, delayed_df,
                 message, notifications>>

NextNorm == Normalize \/ Renormalize

SpecNorm == InitNorm /\ [][NextNorm]_vars

\* ------------------------------------------------------------------- claims
\* fetch_realtime_data returned without an exception
Reconciled == pc = "done" /\ outcome \in {"no_updates", "no_delays", "alert"}

\* the run went through get_line_trip_ids
Resolved ==
  \/ pc \in {"filter_stops_and_times", "fetch_realtime_data"}
  \/ pc = "done" /\ outcome \notin {"no_static_url", "missing_files"}

\* filter_stops_and_times returned
Filtered ==
  \/ pc = "fetch_realtime_data"
  \/ pc = "done" /\ outcome \notin {"no_static_url", "missing_files"}

MonitoredStopIds == {stops_df[i].stop_id : i \in DOMAIN stops_df}
TripsOf(df) == {df[i].trip_id : i \in DOMAIN df}
AlertTrips == {message[k].trip_id : k \in DOMAIN message}
Alerts == {i \in DOMAIN notifications : notifications[i].kind = "alert"}

\* the realtime stop visits of a trip at a monitored stop
MonitoredVisits(t) ==
  {i \in DOMAIN realtime_df :
     realtime_df[i].trip_id = t /\ realtime_df[i].stop_id \in MonitoredStopIds}

\* C9: normalize_stop_id(s) holds no ":" delimiter, normalizing it again changes
\* nothing, and a raw id with the same base code normalizes to the same value.
C9_NormalizeCanonical ==
  /\ norm.step \in {"normalized", "renormalized"} =>
       /\ ":" \notin Range(norm.out)
       /\ norm.other_out = norm.out
  /\ norm.step = "renormalized" => norm.again = norm.out

C9_Witness ==
  /\ norm.step = "renormalized"
  /\ ":" \in Range(norm.raw)
  /\ norm.other # norm.raw
  /\ norm.out # <<>>
  /\ norm.out # norm.raw

\* C1: when fetch_realtime_data returns, the trips of the delay alert are exactly
\* the trips with a realtime visit at a monitored stop whose arrival_delay is at
\* least 120 s; the alert is sent exactly when there is such a trip.
C1_AlertIffDelayedVisit ==
  Reconciled =>
    /\ AlertTrips =
         {t \in TripsOf(realtime_df) :
            \E i \in MonitoredVisits(t) : realtime_df[i].arrival_delay >= 120}
    /\ (Alerts # {}) = (AlertTrips # {})
    /\ \A i \in Alerts : notifications[i].content = message

\* a trip delayed by 90 s at one monitored stop and 150 s at another is alerted
C1_Witness ==
  /\ Reconciled
  /\ \E t \in AlertTrips : \E i, j \in MonitoredVisits(t) :
       /\ realtime_df[i].stop_id # realtime_df[j].stop_id
       /\ realtime_df[i].arrival_delay = 90
       /\ realtime_df[j].arrival_delay = 150

\* C2: a feed that decodes and holds no stop_time_update (no entity at all, or
\* entities without updates) gives no qualifying trip and no call of
\* send_discord_notification.
C2_EmptyFeedSilent ==
  (pc = "done" /\ outcome \notin {"no_static_url", "missing_files"}
     /\ fetch_error = "none" /\ \A i \in DOMAIN feed : feed[i].stop_time_update = <<>>) =>
    /\ notifications = <<>>
    /\ message = <<>>
    /\ delayed_df = <<>>

C2_Witness ==
  /\ pc = "done"
  /\ fetch_error = "none"
  /\ Len(feed) = 2
  /\ \A i \in DOMAIN feed : feed[i].stop_time_update = <<>>
  /\ stop_times_df # <<>>
  /\ notifications = <<>>

\* t <= u for effective arrival times, a missing time (NaT) after every time
TimeLeq(t, u) == u = NaT \/ (t # NaT /\ t <= u)

\* C3: for every qualifying trip the alert holds one grouping; its entries are
\* visits of the trip, one per canonical stop id, each the visit with the smallest
\* effective arrival time at that stop (a visit without a time counts as latest),
\* in ascending effective arrival order; start and end are the first and the last.
C3_FirstVisitPerStop ==
  outcome = "alert" =>
    \A t \in DelayedTrips(merged_df) :
      LET rows == TripRows(delayed_df, t)
          visits == TripRows(merged_df, t)
          groups == {k \in DOMAIN message : message[k].trip_id = t}
      IN /\ Cardinality(groups) = 1
         /\ rows # <<>>
         /\ \A i, j \in DOMAIN rows : i # j => rows[i].stop_id # rows[j].stop_id
         /\ \A i \in DOMAIN rows : \E v \in DOMAIN visits : visits[v] = rows[i]
         /\ \A v \in DOMAIN visits : \E i \in DOMAIN rows :
              /\ rows[i].stop_id = visits[v].stop_id
              /\ TimeLeq(rows[i].real_arrival_time, visits[v].real_arrival_time)
         /\ \A i, j \in DOMAIN rows :
              i < j => TimeLeq(rows[i].real_arrival_time, rows[j].real_arrival_time)
         /\ \A k \in groups :
              /\ message[k].start = rows[1].stop_name
              /\ message[k].end = rows[Len(rows)].stop_name
              /\ Len(message[k].lines) = Len(rows)

\* an alerted trip with two visits of one stop at different effective times, the
\* later one first in the feed, and a second stop
C3_Witness ==
  /\ outcome = "alert"
  /\ \E t \in DelayedTrips(merged_df) :
       LET visits == TripRows(merged_df, t)
       IN /\ \E v, w \in DOMAIN visits :
               /\ v < w
               /\ visits[v].stop_id = visits[w].stop_id
               /\ visits[w].real_arrival_time # NaT
               /\ visits[w].real_arrival_time < visits[v].real_arrival_time
          /\ Len(TripRows(delayed_df, t)) = 1

\* the rows of the realtime feed and of the filtered schedule for one (trip, stop)
Records(t, s) ==
  {i \in DOMAIN realtime_df : realtime_df[i].trip_id = t /\ realtime_df[i].stop_id = s}
Scheduled(t, s) ==
  {i \in DOMAIN stop_times_df :
     stop_times_df[i].trip_id = t /\ stop_times_df[i].stop_id = s}

C7_NoRouteStopsTheRun ==
  (Resolved /\ line_route_ids = {}) =>
    /\ pc = "done"
    /\ outcome = "schedule_resolution_error"
    /\ notifications = <<>>

\* C10 as the spec states it: every alerted trip is a trip of the line that is in
\* the filtered schedule.
C10_AlertedTripsAreIndexed ==
  outcome = "alert" =>
    \A t \in AlertTrips : t \in line_trip_ids /\ t \in TripsOf(stop_times_df)

\* C4 as the spec states it: every trip of the returned stop_times visits every
\* monitored stop.
C4_TripsCoverMonitoredStops ==
  Filtered =>
    \A t \in TripsOf(stop_times_df) :
      MonitoredStopIds \subseteq
        {stop_times_df[i].stop_id : i \in {j \in DOMAIN stop_times_df : stop_times_df[j].trip_id = t}}

\* the rows of a trip that come first, and last, in schedule order (ascending
\* arrival_time), whichever way rows of equal time are ordered
Earliest(rows) ==
  {i \in DOMAIN rows : \A j \in DOMAIN rows : rows[i].arrival_time <= rows[j].arrival_time}
Latest(rows) ==
  {i \in DOMAIN rows : \A j \in DOMAIN rows : rows[j].arrival_time <= rows[i].arrival_time}

\* C5 as the spec states it: no returned trip has the same first and last stop
\* in schedule order.  A trip breaks it when its first and its last stop are the
\* same however rows of equal time are ordered.
C5_NoDegenerateTripBySchedule ==
  Filtered =>
    \A t \in TripsOf(stop_times_df) :
      LET rows == TripRows(stop_times_df, t)
      IN \E i \in Earliest(rows), j \in Latest(rows) : rows[i].stop_id # rows[j].stop_id

====
